---- MODULE Spec2Model ----
(***************************************************************************)
(* Model of the Elsys uplink decoder (src/src/uplink.rs).                  *)
(*                                                                         *)
(* Uplink::deserialize walks a byte buffer with a cursor i.  One loop      *)
(* iteration is one step of the model (Iterate); leaving the loop and      *)
(* returning Ok(output) is the other (Return).  Indices are 0-based as in  *)
(* the source: At(input, k) is input[k].  An index outside the buffer is a *)
(* Rust panic, modelled by pc = "panic".                                   *)
(*                                                                         *)
(* Option<T> is modelled as a sequence: None is <<>>, Some(v) is <<v>>.    *)
(* The temperature field holds the signed tenths value temperature_x10;    *)
(* the source stores temperature_x10 as f32 * 0.1.                         *)
(***************************************************************************)
EXTENDS Integers, Sequences, FiniteSets, TLC

VARIABLES
    input,      \* the byte buffer handed to deserialize
    i,          \* the cursor of the while loop
    output,     \* the Uplink record being built
    pc,         \* "loop", "ok" (returned Ok), "err" (returned Err), "panic"
    error,      \* None, or Some(message kind) of the returned Err
    returned,   \* None, or Some(record) of the returned Ok
    lookups,    \* history: cursor positions whose byte was matched against LAYOUT
    invoked,    \* history: decoder invocations [identifier, at]
    reads       \* history: every index of input the call has read

vars == <<input, i, output, pc, error, returned, lookups, invoked, reads>>

----------------------------------------------------------------------------
(* Bounds of the model *)

MaxLen == 4
MaxLenFair == 3

Bytes == {0, 1, 2, 3, 5, 6, 7, 13, 17, 32, 255}

U8 == 0..255

----------------------------------------------------------------------------
(* Data *)

None == <<>>
Some(v) == <<v>>

Default ==
    [temperature |-> None, co2 |-> None, battery_mv |-> None,
     occupancy |-> None, external_digital |-> None]

ErrLength == "which is length"
ErrNotIdentifier == "which is not an identifier"
ErrNotWindowContact == "which is not a window contact value"
ErrNotOccupancy == "which is not an occupancy value"

L(id, sz, f) == [identifier |-> id, size |-> sz, bin_to |-> f]

LAYOUT_0x05_occupancy ==
    << L(1, 2, "temperature"), L(2, 1, "no_decode"), L(3, 3, "no_decode"),
       L(4, 2, "no_decode"), L(5, 1, "occupancy"), L(6, 2, "co2"),
       L(7, 2, "battery"), L(8, 2, "no_decode"), L(9, 6, "no_decode"),
       L(10, 2, "no_decode"), L(11, 4, "no_decode"), L(12, 2, "no_decode"),
       L(13, 1, "external_digital"), L(14, 2, "no_decode"), L(15, 1, "no_decode"),
       L(16, 4, "no_decode"), L(17, 1, "no_decode"), L(18, 1, "no_decode"),
       L(19, 65, "no_decode"), L(20, 4, "no_decode"), L(21, 2, "no_decode"),
       L(22, 2, "no_decode"), L(23, 4, "no_decode"), L(24, 2, "no_decode"),
       L(25, 2, "no_decode"), L(26, 1, "no_decode"), L(27, 4, "no_decode"),
       L(28, 2, "no_decode"), L(61, 4, "no_decode") >>

LAYOUT ==
    << L(1, 2, "temperature"), L(2, 1, "no_decode"), L(3, 3, "no_decode"),
       L(4, 2, "no_decode"), L(5, 1, "no_decode"), L(6, 2, "co2"),
       L(7, 2, "battery"), L(8, 2, "no_decode"), L(9, 6, "no_decode"),
       L(10, 2, "no_decode"), L(11, 4, "no_decode"), L(12, 2, "no_decode"),
       L(13, 1, "external_digital"), L(14, 2, "no_decode"), L(15, 1, "no_decode"),
       L(16, 4, "no_decode"), L(17, 1, "occupancy"), L(18, 1, "no_decode"),
       L(19, 65, "no_decode"), L(20, 4, "no_decode"), L(21, 2, "no_decode"),
       L(22, 2, "no_decode"), L(23, 4, "no_decode"), L(24, 2, "no_decode"),
       L(25, 2, "no_decode"), L(26, 1, "no_decode"), L(27, 4, "no_decode"),
       L(28, 2, "no_decode"), L(61, 4, "no_decode") >>

At(inp, k) == inp[k + 1]

InRange(inp, ks) == \A k \in ks : k >= 0 /\ k < Len(inp)

\* The for loop over LAYOUT: the index of the first entry whose identifier
\* equals b, or 0 when the loop ends without a match.
MatchIndex(b) ==
    IF \E k \in DOMAIN LAYOUT : LAYOUT[k].identifier = b
    THEN CHOOSE k \in DOMAIN LAYOUT :
            /\ LAYOUT[k].identifier = b
            /\ \A j \in 1..(k - 1) : LAYOUT[j].identifier # b
    ELSE 0

----------------------------------------------------------------------------
(* Results of the helpers: st is "Ok", "Err" or "Panic" *)

ROk(out, rd) == [st |-> "Ok", error |-> None, output |-> out, reads |-> rd]
RErr(msg, out, rd) == [st |-> "Err", error |-> Some(msg), output |-> out, reads |-> rd]
RPanic(out, rd) == [st |-> "Panic", error |-> None, output |-> out, reads |-> rd]

\* An Err whose message formats input[k]: the formatting indexes the buffer.
ErrReading(inp, k, msg, out) ==
    IF InRange(inp, {k}) THEN RErr(msg, out, {k}) ELSE RPanic(out, {k})

verify_array_length_lt(inp, k, pattern_size) ==
    IF Len(inp) < k + pattern_size
    THEN ErrReading(inp, k, ErrLength, Default)
    ELSE ROk(Default, {})

verify_array_length_trailing(inp, k, pattern_size) ==
    IF Len(inp) <= k + pattern_size + 1
    THEN ErrReading(inp, k, ErrLength, Default)
    ELSE ROk(Default, {})

verify_array_length(inp, k, pattern_size) ==
    IF Len(inp) <= k + pattern_size
    THEN ErrReading(inp, k, ErrLength, Default)
    ELSE ROk(Default, {})

verify_pattern_matches_never(inp, k, identifier_found) ==
    ROk(Default, {})

verify_pattern_matches(inp, k, identifier_found) ==
    IF ~identifier_found
    THEN ErrReading(inp, k, ErrNotIdentifier, Default)
    ELSE ROk(Default, {})

\* 16-bit wrap of an integer to i16 (the `as i16` cast).
AsI16(x) ==
    LET m == x % 65536 IN IF m >= 32768 THEN m - 65536 ELSE m

\* 0x8000 & bin
HighBit(bin) == ((bin \div 32768) % 2) * 32768

bin16_to_dec_ffff(bin) ==
    IF HighBit(bin) = 0
    THEN AsI16(bin)
    ELSE AsI16(-(65535 - bin))

bin16_to_dec(bin) ==
    IF HighBit(bin) = 0
    THEN AsI16(bin)
    ELSE AsI16(-(65536 - bin))

\* ((hi as u16) << 8) | lo as u16: the shifted high byte has its low eight
\* bits clear, so the bitwise or is a sum.
BigEndian16(hi, lo) == ((hi * 256) % 65536) + lo

temperature(inp, k, out) ==
    IF ~InRange(inp, {k, k + 1}) THEN RPanic(out, {k, k + 1})
    ELSE LET temperature_x10_pos == BigEndian16(At(inp, k), At(inp, k + 1))
             temperature_x10 == bin16_to_dec(temperature_x10_pos)
         IN  ROk([out EXCEPT !.temperature = Some(temperature_x10)], {k, k + 1})

co2_shifted(inp, k, out) ==
    IF ~InRange(inp, {k + 1, k + 2}) THEN RPanic(out, {k + 1, k + 2})
    ELSE ROk([out EXCEPT !.co2 = Some(BigEndian16(At(inp, k + 1), At(inp, k + 2)))],
             {k + 1, k + 2})

co2(inp, k, out) ==
    IF ~InRange(inp, {k, k + 1}) THEN RPanic(out, {k, k + 1})
    ELSE ROk([out EXCEPT !.co2 = Some(BigEndian16(At(inp, k), At(inp, k + 1)))],
             {k, k + 1})

battery(inp, k, out) ==
    IF ~InRange(inp, {k, k + 1}) THEN RPanic(out, {k, k + 1})
    ELSE ROk([out EXCEPT !.battery_mv = Some(BigEndian16(At(inp, k), At(inp, k + 1)))],
             {k, k + 1})

external_digital(inp, k, out) ==
    IF ~InRange(inp, {k}) THEN RPanic(out, {k})
    ELSE CASE At(inp, k) = 0 -> ROk([out EXCEPT !.external_digital = Some(FALSE)], {k})
           [] At(inp, k) = 1 -> ROk([out EXCEPT !.external_digital = Some(TRUE)], {k})
           [] OTHER -> RErr(ErrNotWindowContact, out, {k})

occupancy_coerce(inp, k, out) ==
    IF ~InRange(inp, {k}) THEN RPanic(out, {k})
    ELSE CASE At(inp, k) = 0 -> ROk([out EXCEPT !.occupancy = Some("NoBody")], {k})
           [] At(inp, k) = 1 -> ROk([out EXCEPT !.occupancy = Some("PendingOrPir")], {k})
           [] OTHER -> ROk([out EXCEPT !.occupancy = Some("OccupiedOrHeat")], {k})

occupancy(inp, k, out) ==
    IF ~InRange(inp, {k}) THEN RPanic(out, {k})
    ELSE CASE At(inp, k) = 0 -> ROk([out EXCEPT !.occupancy = Some("NoBody")], {k})
           [] At(inp, k) = 1 -> ROk([out EXCEPT !.occupancy = Some("PendingOrPir")], {k})
           [] At(inp, k) = 2 -> ROk([out EXCEPT !.occupancy = Some("OccupiedOrHeat")], {k})
           [] OTHER -> RErr(ErrNotOccupancy, out, {k})

no_decode(inp, k, out) == ROk(out, {})

\* (deserialise_pattern.bin_to)(input, i + 1, &mut output)
BinTo(f, inp, k, out) ==
    CASE f = "temperature" -> temperature(inp, k, out)
      [] f = "co2" -> co2(inp, k, out)
      [] f = "battery" -> battery(inp, k, out)
      [] f = "external_digital" -> external_digital(inp, k, out)
      [] f = "occupancy" -> occupancy(inp, k, out)
      [] OTHER -> no_decode(inp, k, out)

----------------------------------------------------------------------------
(* The loop of Uplink::deserialize *)

LoopCond_le(inp, k) == k <= Len(inp)

LoopCond(inp, k) == k < Len(inp)

SkipPayload_none(k, size) == k

\* i += deserialise_pattern.size
SkipPayload(k, size) == k + size

SkipTag_none(k) == k

\* i += 1
SkipTag(k) == k + 1

\* What one iteration does to the locals: pc, i, output, the Err it returns,
\* the indices it reads, the decoder invocations it makes.
Step(p, k, out, err, rd, inv) ==
    [pc |-> p, i |-> k, output |-> out, error |-> err, reads |-> rd, invoked |-> inv]

FromResult(r, k, rd, inv) ==
    Step(IF r.st = "Err" THEN "err" ELSE "panic", k, r.output, r.error,
         rd \cup r.reads, inv)

LoopBody(inp, k, out) ==
    IF ~InRange(inp, {k}) THEN Step("panic", k, out, None, {k}, <<>>)
    ELSE
    LET m == MatchIndex(At(inp, k)) IN
    IF m = 0
    THEN LET v == verify_pattern_matches(inp, k, FALSE) IN
         IF v.st = "Ok"
         THEN Step("loop", SkipTag(k), out, None, {k} \cup v.reads, <<>>)
         ELSE FromResult([v EXCEPT !.output = out], k, {k}, <<>>)
    ELSE
    LET deserialise_pattern == LAYOUT[m]
        a == verify_array_length(inp, k, deserialise_pattern.size)
    IN
    IF a.st # "Ok" THEN FromResult([a EXCEPT !.output = out], k, {k}, <<>>)
    ELSE
    LET d == BinTo(deserialise_pattern.bin_to, inp, k + 1, out)
        call == <<[identifier |-> deserialise_pattern.identifier, at |-> k + 1]>>
    IN
    IF d.st # "Ok" THEN FromResult(d, k, {k}, call)
    ELSE
    LET k2 == SkipPayload(k, deserialise_pattern.size)
        v == verify_pattern_matches(inp, k2, TRUE)
    IN
    IF v.st # "Ok" THEN FromResult([v EXCEPT !.output = d.output], k2, {k} \cup d.reads, call)
    ELSE Step("loop", SkipTag(k2), d.output, None, {k} \cup d.reads, call)

----------------------------------------------------------------------------
(* Inputs *)

SeqsUpTo(S, n) == UNION {[1..m -> S] : m \in 0..n}

\* The buffers of test_uplink.rs (base64 decoded).
TestInputs ==
    { <<5, 1, 17, 1>>,
      <<1, 0, 220, 2, 60, 7, 14, 65>>,
      <<1, 0, 249, 2, 54, 4, 2, 79, 5, 2, 7, 14, 74>>,
      <<1, 0, 212, 2, 40, 4, 0, 20, 5, 0, 7, 14, 29, 17, 1>>,
      <<32, 0, 0>>,
      <<6, 0>>,
      <<6, 0, 0>> }

\* temperature, light (no-op), battery; and the same without the light tag.
FramingInputs ==
    UNION { { <<1, t[1], t[2], 4, a, b, 7, 14, 74>>, <<1, t[1], t[2], 7, 14, 74>> } :
            t \in {<<0, 249>>, <<255, 56>>}, a \in Bytes, b \in Bytes }

Inputs == SeqsUpTo(Bytes, MaxLen) \cup TestInputs \cup FramingInputs

\* Every 16-bit temperature payload.
TemperatureInputs == { <<1, hi, lo>> : hi \in U8, lo \in U8 }

FairInputs == SeqsUpTo(Bytes, MaxLenFair) \cup TestInputs

----------------------------------------------------------------------------
(* The state machine *)

Start(inps) ==
    /\ input \in inps
    /\ i = 0
    /\ output = Default
    /\ pc = "loop"
    /\ error = None
    /\ returned = None
    /\ lookups = <<>>
    /\ invoked = <<>>
    /\ reads = {}

Init == Start(Inputs)

InitTemperature == Start(TemperatureInputs)

InitFair == Start(FairInputs)

\* One iteration of `while i < input.len()`.
Iterate ==
    /\ pc = "loop"
    /\ LoopCond(input, i)
    /\ LET s == LoopBody(input, i, output) IN
        /\ pc' = s.pc
        /\ i' = s.i
        /\ output' = s.output
        /\ error' = s.error
        /\ reads' = reads \cup s.reads
        /\ invoked' = invoked \o s.invoked
    /\ lookups' = Append(lookups, i)
    /\ returned' = None
    /\ UNCHANGED input

\* Ok(output)
Return ==
    /\ pc = "loop"
    /\ ~LoopCond(input, i)
    /\ pc' = "ok"
    /\ returned' = Some(output)
    /\ UNCHANGED <<input, i, output, error, lookups, invoked, reads>>

Next == Iterate \/ Return

Spec == Init /\ [][Next]_vars

SpecTemperature == InitTemperature /\ [][Next]_vars

\* deserialize is synchronous straight-line code: a step that can be taken is taken.
FairSpec == InitFair /\ [][Next]_vars /\ WF_vars(Next)

----------------------------------------------------------------------------
(* Vocabulary of the properties *)

Identifiers == {LAYOUT[k].identifier : k \in DOMAIN LAYOUT}

SizeOf(b) == LAYOUT[MatchIndex(b)].size

\* The n-th position looked up as a tag, and the byte found there.
Pos(n) == lookups[n]
TagAt(n) == At(input, Pos(n))

Recognised(n) == InRange(input, {Pos(n)}) /\ TagAt(n) \in Identifiers

\* The call ended at the n-th lookup with the length error.
LengthRejected(n) == n = Len(lookups) /\ pc = "err" /\ error = Some(ErrLength)

Last(s) == s[Len(s)]

AllAbsent ==
    [temperature |-> <<>>, co2 |-> <<>>, battery_mv |-> <<>>,
     occupancy |-> <<>>, external_digital |-> <<>>]

----------------------------------------------------------------------------
\* C1: a recognised tag at position p of declared size s with fewer than s
\* bytes after the tag byte makes the call return the length error and no
\* record, without invoking the tag's decoder; [0x06, 0x00] fails and
\* [0x06, 0x00, 0x00] succeeds.
C1_TruncationRejected ==
    /\ \A n \in DOMAIN lookups :
        (Recognised(n) /\ Len(input) - (Pos(n) + 1) < SizeOf(TagAt(n)))
            => /\ pc = "err"
               /\ error = Some(ErrLength)
               /\ returned = None
               /\ \A c \in DOMAIN invoked : invoked[c].at # Pos(n) + 1
    /\ (input = <<6, 0>> /\ pc # "loop") => (pc = "err" /\ returned = None)
    /\ (input = <<6, 0, 0>> /\ pc # "loop") => (pc = "ok" /\ returned # None)

\* A truncated tag met after another tag was decoded.
C1_Witness ==
    /\ pc = "err"
    /\ error = Some(ErrLength)
    /\ invoked # <<>>
    /\ Len(input) - (i + 1) < SizeOf(At(input, i))

\* C2 as stated: a tag is accepted only if a byte exists beyond its last
\* payload byte, so a buffer ending exactly at a tag's last payload byte is
\* rejected.
C2_TrailingByteRequired ==
    \A n \in DOMAIN lookups :
        (Recognised(n) /\ ~LengthRejected(n))
            => Len(input) > Pos(n) + SizeOf(TagAt(n)) + 1

\* C2 amended: a recognised tag at position p of declared size s is rejected
\* with the length error exactly when the buffer holds fewer than s bytes
\* after the tag byte (len <= p + s); a buffer that ends exactly at the tag's
\* last payload byte (len = p + s + 1) passes the length check, and no
\* trailing byte is needed.
C2_PayloadMustFit ==
    \A n \in DOMAIN lookups :
        Recognised(n)
            => (LengthRejected(n) <=> Len(input) <= Pos(n) + SizeOf(TagAt(n)))

\* A buffer accepted although its last tag's payload ends at the last byte.
C2_Witness ==
    /\ pc = "ok"
    /\ lookups # <<>>
    /\ Len(input) = Last(lookups) + SizeOf(At(input, Last(lookups))) + 1

\* C3: a cursor byte that is none of the 29 identifiers makes the call return
\* the not-an-identifier error and no record, whatever was decoded before;
\* [0x20, 0x00, 0x00] fails.
C3_UnknownTagRejected ==
    /\ Cardinality(Identifiers) = 29
    /\ Identifiers = (1..28) \cup {61}
    /\ \A n \in DOMAIN lookups :
        (InRange(input, {Pos(n)}) /\ TagAt(n) \notin Identifiers)
            => /\ n = Len(lookups)
               /\ pc = "err"
               /\ error = Some(ErrNotIdentifier)
               /\ returned = None
    /\ (input = <<32, 0, 0>> /\ pc # "loop") => pc = "err"

\* An unknown byte met after fields were decoded.
C3_Witness ==
    /\ pc = "err"
    /\ error = Some(ErrNotIdentifier)
    /\ output # AllAbsent
    /\ At(input, i) = 32

\* The last decoder invocation, when it is for tag id.
LastInvoked(id) == invoked # <<>> /\ Last(invoked).identifier = id
LastPayload == At(input, Last(invoked).at)

\* C4: the occupancy tag (0x11) maps payload 0, 1, 2 to NoBody, PendingOrPir,
\* OccupiedOrHeat and the external-digital tag (0x0d) maps 0, 1 to false,
\* true; any other payload byte makes the call return an error and no record.
C4_EnumDecoding ==
    /\ LastInvoked(17) =>
        /\ LastPayload = 0 => output.occupancy = <<"NoBody">>
        /\ LastPayload = 1 => output.occupancy = <<"PendingOrPir">>
        /\ LastPayload = 2 => output.occupancy = <<"OccupiedOrHeat">>
        /\ LastPayload \in 0..2 => error # Some(ErrNotOccupancy)
        /\ LastPayload \notin 0..2 =>
              (pc = "err" /\ error = Some(ErrNotOccupancy) /\ returned = None)
    /\ LastInvoked(13) =>
        /\ LastPayload = 0 => output.external_digital = <<FALSE>>
        /\ LastPayload = 1 => output.external_digital = <<TRUE>>
        /\ LastPayload \in 0..1 => error # Some(ErrNotWindowContact)
        /\ LastPayload \notin 0..1 =>
              (pc = "err" /\ error = Some(ErrNotWindowContact) /\ returned = None)
    /\ pc = "ok" =>
        /\ returned[1].occupancy \in
              {<<>>, <<"NoBody">>, <<"PendingOrPir">>, <<"OccupiedOrHeat">>}
        /\ returned[1].external_digital \in {<<>>, <<FALSE>>, <<TRUE>>}

\* An occupancy value was decoded and an invalid contact value then rejected.
C4_Witness ==
    /\ pc = "err"
    /\ error = Some(ErrNotWindowContact)
    /\ output.occupancy = <<"OccupiedOrHeat">>
    /\ LastPayload > 1

\* C5: for the raw big-endian value r = 256*hi + lo of a temperature payload,
\* the decoded tenths value is r when r < 32768 and r - 65536 otherwise, a
\* value of the signed 16-bit range; 0x0000 gives 0 and 0x8000 gives -32768.
C5_SignExtension ==
    LastInvoked(1) =>
        LET r == 256 * LastPayload + At(input, Last(invoked).at + 1) IN
        /\ r \in 0..65535
        /\ output.temperature = <<IF r < 32768 THEN r ELSE r - 65536>>
        /\ output.temperature[1] \in -32768..32767
        /\ r = 0 => output.temperature = <<0>>
        /\ r = 32768 => output.temperature = <<-32768>>

\* The payload 0x80 0x00 was decoded.
C5_Witness ==
    /\ pc = "ok"
    /\ input = <<1, 128, 0>>
    /\ returned = <<[AllAbsent EXCEPT !.temperature = <<-32768>>]>>

\* The record of a temperature tag hi lo and the battery tag 0x0e 0x4a.
FramingRecord(hi, lo) ==
    [AllAbsent EXCEPT !.temperature = <<IF hi < 128 THEN 256 * hi + lo
                                         ELSE 256 * hi + lo - 65536>>,
                      !.battery_mv = <<3658>>]

\* C6: the first lookup is at 0, and after a tag at position p of declared
\* size s the next lookup is at p + s + 1, so payload bytes are not looked up
\* as tags; a light tag (0x04, size 2) between a temperature tag and a
\* battery tag sets no field and leaves the decoded values those of the
\* buffer without it.
C6_ExactFraming ==
    /\ lookups # <<>> => Pos(1) = 0
    /\ \A n \in DOMAIN lookups :
        /\ n < Len(lookups) => Pos(n + 1) = Pos(n) + SizeOf(TagAt(n)) + 1
        /\ (n = Len(lookups) /\ pc \in {"loop", "ok"})
              => i = Pos(n) + SizeOf(TagAt(n)) + 1
    /\ (input \in FramingInputs /\ pc # "loop") =>
        /\ pc = "ok"
        /\ returned = <<FramingRecord(input[2], input[3])>>
        /\ Len(input) = 9 => lookups = <<0, 3, 6>>
        /\ Len(input) = 6 => lookups = <<0, 3>>

\* The light payload holds the battery identifier and an unknown byte.
C6_Witness ==
    /\ pc = "ok"
    /\ input = <<1, 0, 249, 4, 7, 32, 7, 14, 74>>
    /\ lookups = <<0, 3, 6>>
    /\ returned = <<FramingRecord(0, 249)>>

\* A tag with identifier id and payload byte v was looked up and accepted.
Carries(id, v) ==
    \E n \in DOMAIN lookups :
        /\ Recognised(n) /\ TagAt(n) = id
        /\ InRange(input, {Pos(n) + 1}) /\ At(input, Pos(n) + 1) = v

\* The last lookup of a tag with identifier id.
LastOf(id) ==
    CHOOSE n \in DOMAIN lookups :
        /\ TagAt(n) = id
        /\ \A m \in DOMAIN lookups : TagAt(m) = id => m <= n

\* C7 as stated: a buffer in which tag 0x05 carries payload 1, long enough
\* for the length check, decodes to occupancy = PendingOrPir and every other
\* field absent.
C7_Tag05IsOccupancy ==
    (pc = "ok" /\ Carries(5, 1))
        => returned = <<[AllAbsent EXCEPT !.occupancy = <<"PendingOrPir">>]>>

\* C7 amended: tag 0x11, not tag 0x05, is the one-byte occupancy tag, and tag
\* 0x05 is a one-byte tag that sets no field.  A returned record has an
\* occupancy exactly when a 0x11 tag was decoded, it is PendingOrPir when the
\* last 0x11 tag carries payload 1, [0x05, 0x01, 0x11, 0x01] decodes to
\* occupancy = PendingOrPir with every other field absent, and [0x05, 0x01]
\* decodes to the all-absent record.
C7_Tag11IsOccupancy ==
    /\ \A c \in DOMAIN invoked :
        invoked[c].identifier = 5 => SizeOf(5) = 1 /\ invoked[c].at + 1 \in
            {lookups[n] : n \in DOMAIN lookups} \cup {i}
    /\ pc = "ok" =>
        /\ returned[1].occupancy # <<>> <=> \E n \in DOMAIN lookups : TagAt(n) = 17
        /\ (\E n \in DOMAIN lookups : TagAt(n) = 17)
              => (At(input, Pos(LastOf(17)) + 1) = 1
                    <=> returned[1].occupancy = <<"PendingOrPir">>)
    /\ (input = <<5, 1, 17, 1>> /\ pc # "loop")
          => (pc = "ok" /\ returned = <<[AllAbsent EXCEPT !.occupancy = <<"PendingOrPir">>]>>)
    /\ (input = <<5, 1>> /\ pc # "loop")
          => (pc = "ok" /\ returned = <<AllAbsent>>)

\* The buffer of the test deserialize_00 was decoded.
C7_Witness ==
    /\ pc = "ok"
    /\ input = <<5, 1, 17, 1>>
    /\ Carries(5, 1)
    /\ Carries(17, 1)
    /\ returned[1].occupancy = <<"PendingOrPir">>

\* C8: on the zero-length buffer the call looks nothing up, fails in no way
\* and returns a record with all five fields absent.
C8_EmptyInput ==
    input = <<>> =>
        /\ pc \in {"loop", "ok"}
        /\ lookups = <<>>
        /\ reads = {}
        /\ error = <<>>
        /\ pc = "ok" => returned = <<AllAbsent>>

\* The empty buffer was decoded.
C8_Witness ==
    /\ input = <<>>
    /\ pc = "ok"
    /\ returned = <<AllAbsent>>

\* C9: every call ends with a record or an error; an iteration that does not
\* end the call moves the cursor forward by the tag's size + 1, at least 2;
\* the positions looked up strictly increase.
C9_Termination ==
    /\ <>(pc \in {"ok", "err"})
    /\ [][(pc = "loop" /\ pc' = "loop")
            => /\ i' = i + SizeOf(At(input, i)) + 1
               /\ i' >= i + 2]_vars
    /\ [](\A m, n \in DOMAIN lookups : m < n => Pos(m) < Pos(n))

\* A call that went through three iterations before returning its record.
C9_Witness ==
    /\ pc = "ok"
    /\ Len(lookups) = 3
    /\ Pos(1) < Pos(2) /\ Pos(2) < Pos(3)

\* C10: no index outside the buffer is read and the call never panics; the
\* cursor is at most len(input) while looping, equals len(input) when the
\* call succeeds and is below it when the call fails; a decoder is invoked at
\* p + 1 only for a tag at a looked-up position p with p + size < len(input),
\* and every index read is a looked-up position or a payload index of an
\* invoked decoder.
C10_BoundsSafety ==
    /\ pc # "panic"
    /\ \A k \in reads : k >= 0 /\ k < Len(input)
    /\ i <= Len(input)
    /\ pc = "ok" => i = Len(input)
    /\ pc = "err" => (i < Len(input) /\ i \in reads)
    /\ \A c \in DOMAIN invoked :
        LET p == invoked[c].at - 1 IN
        /\ \E n \in DOMAIN lookups : Pos(n) = p
        /\ At(input, p) = invoked[c].identifier
        /\ p + SizeOf(invoked[c].identifier) < Len(input)
    /\ \A k \in reads :
        \/ \E n \in DOMAIN lookups : Pos(n) = k
        \/ \E c \in DOMAIN invoked :
              k \in invoked[c].at .. (invoked[c].at - 1 + SizeOf(invoked[c].identifier))

\* A decoder read the last byte of the buffer.
C10_Witness ==
    /\ pc = "ok"
    /\ invoked # <<>>
    /\ Last(invoked).identifier = 6
    /\ Len(input) - 1 \in reads
    /\ Last(invoked).at + 1 = Len(input) - 1

====
